---- MODULE Spec2Model ----
(***************************************************************************)
(* The Titanic prediction service of src/app.py as a state machine.        *)
(*                                                                         *)
(* State: the three module globals (model, scaler, model_info), the        *)
(* position of the application in its life (imported, serving, aborted)    *)
(* and the observable record of the most recent request: the request, the  *)
(* HTTP response, the library calls the handler made and the exception     *)
(* raised inside its try block.                                            *)
(*                                                                         *)
(* Every handler is an `async def` without an await, so it runs to its end *)
(* on the event loop without interleaving: one action per handler.         *)
(* The ASGI application object answers requests whether or not its host    *)
(* has run the startup event (lifespan disabled, a test client used        *)
(* without its context manager), so requests are enabled in the phases     *)
(* "imported" and "serving".  A startup that raises ends the application.  *)
(*                                                                         *)
(* Floats are modelled as integers; Inf stands for float('inf').           *)
(* Computed floats are integers counted in hundredths: Unit is 1.0.        *)
(*                                                                         *)
(* The two audit scripts are processes of their own: `audit` is a run of   *)
(* src/audit_dependencies.py (specification SpecAudit) and `report` a run  *)
(* of src/generate_audit_report.py (specification SpecReport).  Each       *)
(* specification leaves the other programs in their initial state.         *)
(***************************************************************************)
EXTENDS Integers, Sequences, FiniteSets, TLC

VARIABLES phase, model, scaler, model_info, request, response, calls, raised,
          audit, report

vars == <<phase, model, scaler, model_info, request, response, calls, raised,
          audit, report>>

\* The state of the prediction service.
service == <<phase, model, scaler, model_info, request, response, calls, raised>>

artifacts == <<model, scaler, model_info>>

\* Longest list of passengers a /batch-predict request carries.
MaxBatch == 2

\* Python's None (app.py 21-23).
None == [type |-> "NoneType"]

\* float('inf'), which a float field of PassengerData accepts (app.py 43, 46).
Inf == 1000000

\* 1.0 as a computed float (a scaled feature, a probability): these are
\* counted in hundredths (app.py 122, 131).
Unit == 100

----------------------------------------------------------------------------
(* Exceptions and call outcomes *)

NoExc == [type |-> "none", status_code |-> 0, detail |-> ""]

HTTPException(status_code, detail) ==
    [type |-> "HTTPException", status_code |-> status_code, detail |-> detail]

Exc(type, msg) == [type |-> type, status_code |-> 0, detail |-> msg]

\* str(e) as app.py 146 and 203 take it: the message of an ordinary
\* exception, "<status>: <detail>" for an HTTPException.
Str(e) ==
    IF e.type = "HTTPException"
    THEN (IF e.status_code = 503 THEN "503: " \o e.detail
          ELSE IF e.status_code = 400 THEN "400: " \o e.detail
          ELSE e.detail)
    ELSE e.detail

Ok(v) == [ok |-> TRUE, val |-> v, exc |-> NoExc]

Raise(e) == [ok |-> FALSE, val |-> <<>>, exc |-> e]

Call(fn, arg) == [fn |-> fn, arg |-> arg]

----------------------------------------------------------------------------
(* PassengerData and the request bodies *)

\* The fields of PassengerData in declaration order (app.py 41-47).
PassengerFields == <<"pclass", "sex", "age", "sibsp", "parch", "fare", "embarked">>

FieldSet == {PassengerFields[i] : i \in 1..Len(PassengerFields)}

\* The training-time feature list (train_model.py 26).
features == <<"Pclass", "Sex", "Age", "SibSp", "Parch", "Fare", "Embarked">>

\* The request field that carries each training column.
FieldOfFeature ==
    [Pclass |-> "pclass", Sex |-> "sex", Age |-> "age", SibSp |-> "sibsp",
     Parch |-> "parch", Fare |-> "fare", Embarked |-> "embarked"]

Passenger(pc, sx, ag, sb, pa, fa, em) ==
    [pclass |-> pc, sex |-> sx, age |-> ag, sibsp |-> sb, parch |-> pa,
     fare |-> fa, embarked |-> em]

\* Valid passengers: the two examples of the docstrings (app.py 81-89,
\* 162-165), and passengers with an infinite age or fare.
Passengers ==
    { Passenger(1, 1, 30, 0, 0, 100, 0),
      Passenger(3, 0, 25, 1, 0, 50, 2),
      Passenger(2, 1, Inf, 0, 2, 10, 1),
      Passenger(2, 0, 4, 3, 1, Inf, 0) }

\* JSON values of a request body.
Num(n) == [t |-> "number", v |-> n]
NotANumber == [t |-> "string", v |-> 0]
Absent == [t |-> "absent", v |-> 0]

RawOf(p) == [f \in FieldSet |-> Num(p[f])]

Damage(raw, f, j) == [raw EXCEPT ![f] = j]

WellFormedBodies == {RawOf(p) : p \in Passengers}

MalformedBodies ==
    {Damage(RawOf(Passenger(1, 1, 30, 0, 0, 100, 0)), f, j) :
        f \in FieldSet, j \in {NotANumber, Absent}}

\* Items of a batch body: every well-formed body, one with a missing field
\* and one with a field of the wrong type.
BatchItems ==
    WellFormedBodies \cup
    { Damage(RawOf(Passenger(3, 0, 25, 1, 0, 50, 2)), "fare", Absent),
      Damage(RawOf(Passenger(3, 0, 25, 1, 0, 50, 2)), "sex", NotANumber) }

SeqsUpTo(S, n) == UNION {[1..k -> S] : k \in 0..n}

BatchBodies == SeqsUpTo(BatchItems, MaxBatch)

\* Validation with every field optional: an absent field passes.
IsValidOptional(raw) == \A f \in FieldSet : raw[f].t \in {"number", "absent"}

\* Validation of one body against PassengerData (app.py 40-47): every field
\* present and numeric.
IsValid(raw) == \A f \in FieldSet : raw[f].t = "number"

\* The PassengerData object built from a valid body.
PassengerData(raw) == [f \in FieldSet |-> raw[f].v]

----------------------------------------------------------------------------
(* The artifact files and the library operations the handlers call *)

\* What joblib.load / open finds when a file of models/ is absent.
Missing == [type |-> "FileNotFoundError"]

\* A fitted classifier as the service sees it: predict answers 1 exactly when
\* the scaled feature `split` is positive; predict_proba, when the estimator
\* has it, answers the class probabilities of the leaf reached; an estimator
\* with several outputs answers a row of `outputs` labels.
Classifier(type, split, has_proba, outputs, leaves) ==
    [type |-> type, split |-> split, has_proba |-> has_proba,
     outputs |-> outputs, leaves |-> leaves]

\* The pickles models/titanic_model.pkl may hold (save_model.py 14).
Classifiers ==
    { Classifier("RandomForestClassifier", 2, TRUE, 1, <<<<80, 20>>, <<10, 90>>>>),
      Classifier("RandomForestClassifier", 6, TRUE, 1, <<<<60, 40>>, <<35, 65>>>>),
      Classifier("LinearSVC", 2, FALSE, 1, <<<<100, 0>>, <<0, 100>>>>),
      Classifier("MultiOutputClassifier", 2, TRUE, 2, <<<<80, 20>>, <<10, 90>>>>) }

\* The pickles models/titanic_scaler.pkl may hold (train_model.py 60-61,
\* save_model.py 18): a StandardScaler with its fitted mean_ and scale_.
Scalers ==
    { [type |-> "StandardScaler", mean_ |-> <<2, 0, 29, 0, 0, 32, 0>>,
       scale_ |-> <<1, 1, 13, 1, 1, 50, 1>>],
      [type |-> "StandardScaler", mean_ |-> <<2, 0, 27, 1, 0, 64, 1>>,
       scale_ |-> <<1, 1, 1, 1, 1, 1, 1>>] }

\* The metadata document of save_model.py 27-33; the accuracy is in hundredths.
ModelInfo(acc) ==
    [model_type |-> "RandomForestClassifier", n_features |-> Len(features),
     features |-> features, version |-> "1.0",
     metrics |-> [test_accuracy |-> acc]]

Infos == {ModelInfo(80), ModelInfo(82)}

\* scaler.transform(X) of a StandardScaler: ValueError on an infinite
\* component, else (X - mean_) / scale_ (app.py 122, 185).
scaler_transform(s, X) ==
    IF \E i \in 1..Len(X) : X[i] = Inf
    THEN Raise(Exc("ValueError", "Input X contains infinity or a value too large for dtype('float64')."))
    ELSE Ok([i \in 1..Len(X) |-> ((X[i] - s.mean_[i]) * Unit) \div s.scale_[i]])

Label(m, X_scaled) == IF X_scaled[m.split] > 0 THEN 1 ELSE 0

\* model.predict(X_scaled): one row of labels (app.py 125, 186).
model_predict(m, X_scaled) == Ok([k \in 1..m.outputs |-> Label(m, X_scaled)])

\* int(array): defined for an array of one element only (app.py 125, 186).
ToInt(y) ==
    IF Len(y) = 1 THEN Ok(y[1])
    ELSE Raise(Exc("TypeError", "only length-1 arrays can be converted to Python scalars"))

\* model.predict_proba(X_scaled): the row [P(class 0), P(class 1)]
\* (app.py 130, 187).
model_predict_proba(m, X_scaled) == Ok(m.leaves[Label(m, X_scaled) + 1])

NoAttribute(obj, name) ==
    Exc("AttributeError", "'" \o obj.type \o "' object has no attribute '" \o name \o "'")

----------------------------------------------------------------------------
(* What the framework does around a handler (the decorators of app.py) *)

\* The response to a body that fails validation against the declared
\* parameter type; the handler is not called (app.py 74-75, 155-156).
ValidationStatus == 422

ValidationFailure ==
    [resp |-> [status |-> ValidationStatus, body |-> [detail |-> "validation error"]],
     calls |-> <<>>, raised |-> NoExc]

\* The response to what a handler returns or raises: 200 with the returned
\* value, the status and detail of an HTTPException, 500 for anything else.
Respond(out) ==
    IF out.ok THEN [status |-> 200, body |-> out.val]
    ELSE IF out.exc.type = "HTTPException"
    THEN [status |-> out.exc.status_code, body |-> [detail |-> out.exc.detail]]
    ELSE [status |-> 500, body |-> [detail |-> "Internal Server Error"]]

----------------------------------------------------------------------------
(* POST /predict (app.py 74-146) *)

\* The array of app.py 111-119.
X_predict(passenger) ==
    << passenger.pclass, passenger.sex, passenger.age, passenger.sibsp,
       passenger.parch, passenger.fare, passenger.embarked >>

\* The class-0 entry taken for the class-1 entry.
predict_probability_class0(probabilities) == probabilities[1]

\* survival_probability = float(probabilities[0, 1]) (app.py 131).
predict_probability(probabilities) == probabilities[2]

\* The message of app.py 134: the outcome word and the confidence.
Message(prediction, survival_probability) ==
    [text |-> IF prediction = 1 THEN "survived" ELSE "not survived",
     confidence |-> survival_probability]

\* app.py 111-142: the statements of the try block after the load check.
\* Answers the value returned or the exception raised, and the calls made.
predict_inference(passenger) ==
    LET X == X_predict(passenger)
        c1 == <<Call("np.array", X)>>
    IN
    IF scaler = None
    THEN [out |-> Raise(NoAttribute(scaler, "transform")), calls |-> c1]
    ELSE
    LET X_scaled == scaler_transform(scaler, X)
        c2 == Append(c1, Call("scaler.transform", X))
    IN
    IF ~X_scaled.ok THEN [out |-> Raise(X_scaled.exc), calls |-> c2]
    ELSE IF model = None
    THEN [out |-> Raise(NoAttribute(model, "predict")), calls |-> c2]
    ELSE
    LET y == model_predict(model, X_scaled.val)
        c3 == Append(c2, Call("model.predict", X_scaled.val))
        prediction == ToInt(y.val)
    IN
    IF ~prediction.ok THEN [out |-> Raise(prediction.exc), calls |-> c3]
    ELSE IF ~model.has_proba
    THEN [out |-> Raise(NoAttribute(model, "predict_proba")), calls |-> c3]
    ELSE
    LET probabilities == model_predict_proba(model, X_scaled.val)
        c4 == Append(c3, Call("model.predict_proba", X_scaled.val))
        survival_probability == predict_probability(probabilities.val)
    IN
    [out |-> Ok([prediction |-> prediction.val,
                 probability |-> survival_probability,
                 message |-> Message(prediction.val, survival_probability)]),
     calls |-> c4]

\* The load check left out: the inference statements run whatever the load state.
predict_try_unchecked(passenger) == predict_inference(passenger)

\* app.py 106-142: the try block.
predict_try(passenger) ==
    IF model = None
    THEN [out |-> Raise(HTTPException(503, "Model not loaded")), calls |-> <<>>]
    ELSE predict_inference(passenger)

\* An except clause that catches ValueError only.
predict_except_narrow(e) ==
    IF e.type = "ValueError" THEN Raise(HTTPException(400, Str(e))) ELSE Raise(e)

\* app.py 144-146: except Exception as e.
predict_except(e) == Raise(HTTPException(400, Str(e)))

\* The handler as the framework calls it with a validated PassengerData.
predict_handler(passenger) ==
    LET t == predict_try(passenger)
    IN [resp |-> Respond(IF t.out.ok THEN t.out ELSE predict_except(t.out.exc)),
        calls |-> t.calls, raised |-> t.out.exc]

----------------------------------------------------------------------------
(* POST /batch-predict (app.py 155-203) *)

\* The array with sibsp and parch exchanged.
X_batch_swapped(passenger) ==
    << passenger.pclass, passenger.sex, passenger.age, passenger.parch,
       passenger.sibsp, passenger.fare, passenger.embarked >>

\* The array of app.py 175-183.
X_batch(passenger) ==
    << passenger.pclass, passenger.sex, passenger.age, passenger.sibsp,
       passenger.parch, passenger.fare, passenger.embarked >>

\* app.py 175-194: one turn of the loop, up to the value appended to results.
batch_item(passenger) ==
    LET X == X_batch(passenger)
        c1 == <<Call("np.array", X)>>
    IN
    IF scaler = None
    THEN [out |-> Raise(NoAttribute(scaler, "transform")), calls |-> c1]
    ELSE
    LET X_scaled == scaler_transform(scaler, X)
        c2 == Append(c1, Call("scaler.transform", X))
    IN
    IF ~X_scaled.ok THEN [out |-> Raise(X_scaled.exc), calls |-> c2]
    ELSE
    LET y == model_predict(model, X_scaled.val)
        c3 == Append(c2, Call("model.predict", X_scaled.val))
        prediction == ToInt(y.val)
    IN
    IF ~prediction.ok THEN [out |-> Raise(prediction.exc), calls |-> c3]
    ELSE IF ~model.has_proba
    THEN [out |-> Raise(NoAttribute(model, "predict_proba")), calls |-> c3]
    ELSE
    LET probabilities == model_predict_proba(model, X_scaled.val)
        c4 == Append(c3, Call("model.predict_proba", X_scaled.val))
        survival_probability == probabilities.val[2]
    IN
    [out |-> Ok([prediction |-> prediction.val,
                 probability |-> survival_probability,
                 survived |-> prediction.val # 0]),
     calls |-> c4]

\* The loop with each result put at the head of results.
RECURSIVE batch_loop_prepend(_, _, _, _)
batch_loop_prepend(passengers, i, results, cs) ==
    IF i > Len(passengers)
    THEN [out |-> Ok([count |-> Len(results), results |-> results]), calls |-> cs]
    ELSE LET item == batch_item(passengers[i])
         IN IF ~item.out.ok
            THEN [out |-> Raise(item.out.exc), calls |-> cs \o item.calls]
            ELSE batch_loop_prepend(passengers, i + 1, <<item.out.val>> \o results,
                                    cs \o item.calls)

\* The loop with a failing item skipped instead of ending the request.
RECURSIVE batch_loop_skip(_, _, _, _)
batch_loop_skip(passengers, i, results, cs) ==
    IF i > Len(passengers)
    THEN [out |-> Ok([count |-> Len(results), results |-> results]), calls |-> cs]
    ELSE LET item == batch_item(passengers[i])
         IN IF ~item.out.ok
            THEN batch_loop_skip(passengers, i + 1, results, cs \o item.calls)
            ELSE batch_loop_skip(passengers, i + 1, Append(results, item.out.val),
                                 cs \o item.calls)

\* app.py 172-199: the loop from item i on, then the value returned.
RECURSIVE batch_loop(_, _, _, _)
batch_loop(passengers, i, results, cs) ==
    IF i > Len(passengers)
    THEN [out |-> Ok([count |-> Len(results), results |-> results]), calls |-> cs]
    ELSE LET item == batch_item(passengers[i])
         IN IF ~item.out.ok
            THEN [out |-> Raise(item.out.exc), calls |-> cs \o item.calls]
            ELSE batch_loop(passengers, i + 1, Append(results, item.out.val),
                            cs \o item.calls)

\* app.py 168-199: the try block.
batch_try(passengers) ==
    IF model = None
    THEN [out |-> Raise(HTTPException(503, "Model not loaded")), calls |-> <<>>]
    ELSE batch_loop(passengers, 1, <<>>, <<>>)

\* app.py 201-203: except Exception as e.
batch_except(e) == Raise(HTTPException(400, Str(e)))

\* The handler as the framework calls it with a validated list.
batch_handler(passengers) ==
    LET t == batch_try(passengers)
    IN [resp |-> Respond(IF t.out.ok THEN t.out ELSE batch_except(t.out.exc)),
        calls |-> t.calls, raised |-> t.out.exc]

----------------------------------------------------------------------------
(* The handlers without a body: /, /health, /model-info *)

\* app.py 56-63.
root_handler ==
    Ok([message |-> "Titanic ML Model API", version |-> "1.0.0", docs |-> "/docs"])

\* A health check that reports the model as loaded whatever the load state.
health_check_always_loaded ==
    Ok([status |-> "healthy", model_loaded |-> TRUE, model_info |-> model_info])

\* app.py 65-72.
health_check_handler ==
    Ok([status |-> "healthy", model_loaded |-> (model # None),
        model_info |-> model_info])

\* /model-info answering the record without its metrics.
get_model_info_partial ==
    IF model_info = None
    THEN Raise(HTTPException(503, "Model info not available"))
    ELSE Ok([k \in DOMAIN model_info \ {"metrics"} |-> model_info[k]])

\* app.py 148-153.
get_model_info_handler ==
    IF model_info = None
    THEN Raise(HTTPException(503, "Model info not available"))
    ELSE Ok(model_info)

----------------------------------------------------------------------------
(* The state machine *)

NoRequest == [op |-> "none", body |-> <<>>]

NoResponse == [status |-> 0, body |-> <<>>]

\* A script that is not being run.
NotRun == [pc |-> "not run"]

\* app.py 21-23: the module has been imported, nothing is loaded.
ServiceInit ==
    /\ phase = "imported"
    /\ model = None
    /\ scaler = None
    /\ model_info = None
    /\ request = NoRequest
    /\ response = NoResponse
    /\ calls = <<>>
    /\ raised = NoExc

Init ==
    /\ ServiceInit
    /\ audit = NotRun
    /\ report = NotRun

\* The phases in which the application answers requests.
Answering == {"imported", "serving"}

\* The startup event with the exception logged and not raised again: the
\* application goes on to serve whatever was loaded.
load_model_swallow ==
    /\ phase = "imported"
    /\ \E fm \in Classifiers \cup {Missing},
          fs \in Scalers \cup {Missing},
          fi \in Infos \cup {Missing} :
         LET ok1 == fm # Missing
             ok2 == ok1 /\ fs # Missing
             ok3 == ok2 /\ fi # Missing
         IN /\ model' = IF ok1 THEN fm ELSE model
            /\ scaler' = IF ok2 THEN fs ELSE scaler
            /\ model_info' = IF ok3 THEN fi ELSE model_info
            /\ phase' = "serving"
            /\ raised' = NoExc
    /\ request' = [op |-> "startup", body |-> <<>>]
    /\ response' = NoResponse
    /\ calls' = <<>>
    /\ UNCHANGED <<audit, report>>

\* app.py 25-37: the startup event.  The three files are read in order; the
\* first one missing raises, which leaves the globals assigned so far and
\* ends the application.
load_model ==
    /\ phase = "imported"
    /\ \E fm \in Classifiers \cup {Missing},
          fs \in Scalers \cup {Missing},
          fi \in Infos \cup {Missing} :
         LET ok1 == fm # Missing
             ok2 == ok1 /\ fs # Missing
             ok3 == ok2 /\ fi # Missing
         IN /\ model' = IF ok1 THEN fm ELSE model
            /\ scaler' = IF ok2 THEN fs ELSE scaler
            /\ model_info' = IF ok3 THEN fi ELSE model_info
            /\ phase' = IF ok3 THEN "serving" ELSE "aborted"
            /\ raised' = IF ok3 THEN NoExc
                         ELSE Exc("FileNotFoundError", "No such file or directory")
    /\ request' = [op |-> "startup", body |-> <<>>]
    /\ response' = NoResponse
    /\ calls' = <<>>
    /\ UNCHANGED <<audit, report>>

\* The observable record of a request that called no library operation.
Served(op, body, out) ==
    /\ request' = [op |-> op, body |-> body]
    /\ response' = Respond(out)
    /\ calls' = <<>>
    /\ raised' = out.exc

\* GET /
root ==
    /\ phase \in Answering
    /\ Served("root", <<>>, root_handler)
    /\ UNCHANGED <<phase, model, scaler, model_info, audit, report>>

\* GET /health
health_check ==
    /\ phase \in Answering
    /\ Served("health", <<>>, health_check_handler)
    /\ UNCHANGED <<phase, model, scaler, model_info, audit, report>>

\* GET /model-info, with the handler dropping the metrics from the shared record.
get_model_info_pop ==
    /\ phase \in Answering
    /\ Served("model-info", <<>>, get_model_info_handler)
    /\ model_info' = IF model_info = None THEN model_info
                     ELSE [k \in DOMAIN model_info \ {"metrics"} |-> model_info[k]]
    /\ UNCHANGED <<phase, model, scaler, audit, report>>

\* GET /model-info
get_model_info ==
    /\ phase \in Answering
    /\ Served("model-info", <<>>, get_model_info_handler)
    /\ UNCHANGED <<phase, model, scaler, model_info, audit, report>>

\* POST /predict: the body is validated, then the handler runs.
predict ==
    /\ phase \in Answering
    /\ \E raw \in WellFormedBodies \cup MalformedBodies :
         LET r == IF IsValid(raw) THEN predict_handler(PassengerData(raw))
                  ELSE ValidationFailure
         IN /\ request' = [op |-> "predict", body |-> raw]
            /\ response' = r.resp
            /\ calls' = r.calls
            /\ raised' = r.raised
    /\ UNCHANGED <<phase, model, scaler, model_info, audit, report>>

\* POST /batch-predict: every item is validated, then the handler runs.
batch_predict ==
    /\ phase \in Answering
    /\ \E raws \in BatchBodies :
         LET r == IF \A i \in 1..Len(raws) : IsValid(raws[i])
                  THEN batch_handler([i \in 1..Len(raws) |-> PassengerData(raws[i])])
                  ELSE ValidationFailure
         IN /\ request' = [op |-> "batch-predict", body |-> raws]
            /\ response' = r.resp
            /\ calls' = r.calls
            /\ raised' = r.raised
    /\ UNCHANGED <<phase, model, scaler, model_info, audit, report>>

Next ==
    \/ load_model
    \/ root
    \/ health_check
    \/ predict
    \/ get_model_info
    \/ batch_predict

Spec == Init /\ [][Next]_vars

----------------------------------------------------------------------------
(* src/audit_dependencies.py: one run of the script *)

\* Most entries in the JSON list pip-licenses prints.
MaxPkgs == 2

\* A string whose characters matter is the sequence of its characters.
\* `needle in hay` (audit_dependencies.py 70).
Contains(hay, needle) ==
    \E i \in 1..(Len(hay) - Len(needle) + 1) :
        SubSeq(hay, i, i + Len(needle) - 1) = needle

\* audit_dependencies.py 64.
dangerous_licenses == << <<"G", "P", "L">>, <<"A", "G", "P", "L">> >>

\* pkg.get('License', 'Unknown') (audit_dependencies.py 57, 69).
LicenseOf(pkg) ==
    IF "License" \in DOMAIN pkg THEN pkg.License
    ELSE <<"U", "n", "k", "n", "o", "w", "n">>

\* Entries pip-licenses may print: permissive, GPL, LGPL, and one without a
\* License key.
LicenseEntries ==
    { [Name |-> "requests", License |-> <<"A", "p", "a", "c", "h", "e">>],
      [Name |-> "readline", License |-> <<"G", "P", "L", "v", "3">>],
      [Name |-> "chardet", License |-> <<"L", "G", "P", "L">>],
      [Name |-> "local-pkg"] }

\* What run_command returns (audit_dependencies.py 6-12): the return code
\* (-1 when the command could not be run) and stdout, which is JSON with
\* its data or text that is not JSON.
Run(returncode, json, data) ==
    [returncode |-> returncode, json |-> json, data |-> data]

PipAuditRuns ==
    { Run(0, TRUE, <<>>), Run(1, TRUE, <<"CVE-2023-0001">>),
      Run(1, FALSE, <<>>), Run(-1, FALSE, <<>>) }

PipLicensesRuns ==
    {Run(0, TRUE, d) : d \in SeqsUpTo(LicenseEntries, MaxPkgs)}
        \cup {Run(1, FALSE, <<>>), Run(-1, FALSE, <<>>)}

\* stdout of `pip list --outdated`: empty, or a table of packages.
PipOutdatedRuns == { Run(0, FALSE, <<>>), Run(0, FALSE, <<"numpy">>) }

\* audit_dependencies.py 14-36: True exactly when pip-audit returned 0.
audit_vulnerabilities_result(run) == run.returncode = 0

\* audit_dependencies.py 38-81: False when stdout is not JSON, else whether
\* no license contains a dangerous name.
check_licenses_result(run) ==
    IF ~run.json THEN FALSE
    ELSE ~(\E k \in 1..Len(run.data) :
              \E d \in 1..Len(dangerous_licenses) :
                  Contains(LicenseOf(run.data[k]), dangerous_licenses[d]))

\* audit_dependencies.py 83-97: True on both branches.
check_outdated_result(run) ==
    IF run.data = <<>> THEN TRUE ELSE TRUE

\* audit_dependencies.py 99-123: True when sbom_report.json was read as JSON
\* and written back, False when either raised.
generate_sbom_result(readable, rewritten) == readable /\ rewritten

\* any(results.values()) in place of all.
any_results(results) == \E k \in 1..Len(results) : results[k]

\* audit_dependencies.py 147: all(results.values()); the timestamp is a
\* non-empty string, hence true.
all_results(results) == \A k \in 1..Len(results) : results[k]

\* audit_dependencies.py 131-137: the checks in the order of the dict literal.
Checks == <<"vulnerabilities", "licenses", "outdated", "sbom">>

\* The script has been started: nothing has run yet.
AuditStarted ==
    [pc |-> Checks[1], ran |-> <<>>, results |-> <<>>, outputs |-> <<>>,
     written |-> FALSE, exit |-> -1]

\* What follows check number k.
AfterCheck(k) == IF k < Len(Checks) THEN Checks[k + 1] ELSE "write"

\* One entry of the dict literal evaluated: check k ran on `output` and
\* returned `result`.
Checked(k, output, result) ==
    audit' = [audit EXCEPT !.pc = AfterCheck(k),
                           !.ran = Append(@, Checks[k]),
                           !.results = Append(@, result),
                           !.outputs = Append(@, output)]

audit_vulnerabilities ==
    /\ audit.pc = "vulnerabilities"
    /\ \E run \in PipAuditRuns : Checked(1, run, audit_vulnerabilities_result(run))
    /\ UNCHANGED <<service, report>>

check_licenses ==
    /\ audit.pc = "licenses"
    /\ \E run \in PipLicensesRuns : Checked(2, run, check_licenses_result(run))
    /\ UNCHANGED <<service, report>>

check_outdated ==
    /\ audit.pc = "outdated"
    /\ \E run \in PipOutdatedRuns : Checked(3, run, check_outdated_result(run))
    /\ UNCHANGED <<service, report>>

generate_sbom ==
    /\ audit.pc = "sbom"
    /\ \E readable \in BOOLEAN, rewritten \in BOOLEAN :
         Checked(4, <<readable, rewritten>>, generate_sbom_result(readable, rewritten))
    /\ UNCHANGED <<service, report>>

\* audit_dependencies.py 140-141: audit_report.json is written; an OSError is
\* caught nowhere and ends the process with status 1.
write_audit_report ==
    /\ audit.pc = "write"
    /\ \E ok \in BOOLEAN :
         audit' = IF ok THEN [audit EXCEPT !.pc = "summary", !.written = TRUE]
                  ELSE [audit EXCEPT !.pc = "done", !.exit = 1]
    /\ UNCHANGED <<service, report>>

\* audit_dependencies.py 147-160: the status and the exit code.
audit_exit ==
    /\ audit.pc = "summary"
    /\ audit' = [audit EXCEPT !.pc = "done",
                              !.exit = IF all_results(audit.results) THEN 0 ELSE 1]
    /\ UNCHANGED <<service, report>>

AuditInit ==
    /\ ServiceInit
    /\ report = NotRun
    /\ audit = AuditStarted

AuditNext ==
    \/ audit_vulnerabilities
    \/ check_licenses
    \/ check_outdated
    \/ generate_sbom
    \/ write_audit_report
    \/ audit_exit

SpecAudit == AuditInit /\ [][AuditNext]_vars

----------------------------------------------------------------------------
(* src/generate_audit_report.py: one run of main *)

\* Longest list of vulnerability IDs a collector returns for one package.
MaxIds == 2

\* Packages and vulnerability IDs the tools report.
PkgSeq == <<"numpy", "requests">>

Packages == {PkgSeq[i] : i \in 1..Len(PkgSeq)}

VulnIds == {"CVE-2023-0001", "PYSEC-2022-42"}

Range(seq) == {seq[i] : i \in 1..Len(seq)}

\* The lists get_pip_audit_vulnerabilities builds (generate_audit_report.py
\* 42-47, 57-65): one append per entry reported, so an ID may repeat.
IdLists == UNION {[1..n -> VulnIds] : n \in 1..MaxIds}

\* What get_pip_audit_vulnerabilities returns: package -> list of IDs.
AuditMaps == UNION {[S -> IdLists] : S \in SUBSET Packages}

\* What get_safety_vulnerabilities returns (generate_audit_report.py 69-93):
\* nothing, or the IDs of one package.
SafetyMaps == UNION {[{p} -> IdLists] : p \in Packages} \cup {[p \in {} |-> <<>>]}

\* The iteration order of a set of strings in this process: a sequence that
\* holds every ID once.
HashOrders == {o \in [1..Cardinality(VulnIds) -> VulnIds] : Range(o) = VulnIds}

\* The keys of a dict in insertion order.
Keys(d) == SelectSeq(PkgSeq, LAMBDA p : p \in DOMAIN d)

Index(seq, x) == CHOOSE i \in 1..Len(seq) : seq[i] = x

\* A dict with key k bound to v.
Bind(d, k, v) == [p \in DOMAIN d \cup {k} |-> IF p = k THEN v ELSE d[p]]

\* The list objects live in a heap, a sequence indexed by reference; a dict
\* maps a package to the reference of its list.  The heap after both
\* collectors returned the maps av and sv:
HeapOf(av, sv) ==
    [i \in 1..(Len(Keys(av)) + Len(Keys(sv))) |->
        IF i <= Len(Keys(av)) THEN av[Keys(av)[i]]
        ELSE sv[Keys(sv)[i - Len(Keys(av))]]]

AuditRefs(av) == [p \in DOMAIN av |-> Index(Keys(av), p)]

SafetyRefs(av, sv) == [p \in DOMAIN sv |-> Len(Keys(av)) + Index(Keys(sv), p)]

\* The contents of a dict of list references.
Deref(heap, d) == [p \in DOMAIN d |-> heap[d[p]]]

\* list(set(xs)) (generate_audit_report.py 121): each ID once, in the
\* iteration order of the set.
ListOfSet(xs, order) == SelectSeq(order, LAMBDA id : id \in Range(xs))

\* generate_audit_report.py 116-121: the loop body for the safety items from
\* number k on.  st holds the heap and the dict merged.
RECURSIVE merge_loop(_, _, _, _, _)
merge_loop(st, safety_vulns, items, k, order) ==
    IF k > Len(items) THEN st
    ELSE
    LET pkg == items[k]
        vulns == st.heap[safety_vulns[pkg]]
        \* 117-118: merged[pkg] = []
        st1 == IF pkg \in DOMAIN st.merged THEN st
               ELSE [heap |-> Append(st.heap, <<>>),
                     merged |-> Bind(st.merged, pkg, Len(st.heap) + 1)]
        \* 119: merged[pkg].extend(vulns), on the list object itself
        st2 == [st1 EXCEPT !.heap[st1.merged[pkg]] = @ \o vulns]
        \* 121: merged[pkg] = list(set(merged[pkg])), a new list
        st3 == [heap |-> Append(st2.heap, ListOfSet(st2.heap[st2.merged[pkg]], order)),
                merged |-> Bind(st2.merged, pkg, Len(st2.heap) + 1)]
    IN merge_loop(st3, safety_vulns, items, k + 1, order)

\* generate_audit_report.py 113-122: merged = audit_vulns.copy() copies the
\* dict, not the lists it refers to.
merge_vulnerabilities(heap, audit_vulns, safety_vulns, order) ==
    merge_loop([heap |-> heap, merged |-> audit_vulns], safety_vulns,
               Keys(safety_vulns), 1, order)

\* generate_audit_report.py 370-401: the files in the order they are written.
ReportFiles ==
    <<"AUDIT_REPORT.md", "audit-report.json", "AUDIT_TABLE.md",
      "AUDIT_TABLE.json", "GITHUB_SUMMARY.md">>

\* main has collected the maps av and sv (generate_audit_report.py 332-341).
Collected(av, sv, order) ==
    [pc |-> "merge",
     reported |-> [pip_audit |-> av, safety |-> sv],
     order |-> order,
     heap |-> HeapOf(av, sv),
     audit_vulns |-> AuditRefs(av),
     safety_vulns |-> SafetyRefs(av, sv),
     vulnerabilities |-> [p \in {} |-> 0],
     md_pip_audit |-> [p \in {} |-> <<>>],
     json_pip_audit |-> [p \in {} |-> <<>>],
     attempted |-> <<>>,
     failed |-> {},
     exit |-> -1]

\* generate_audit_report.py 344.
merge ==
    /\ report.pc = "merge"
    /\ LET st == merge_vulnerabilities(report.heap, report.audit_vulns,
                                       report.safety_vulns, report.order)
       IN report' = [report EXCEPT !.pc = "generate", !.heap = st.heap,
                                   !.vulnerabilities = st.merged]
    /\ UNCHANGED <<service, audit>>

\* generate_audit_report.py 351-352: the 'pip-audit Results' section (218-221)
\* and audit_sources.pip_audit.vulnerabilities (268-272) are read from
\* audit_vulns as it is now; nothing changes it afterwards.
generate_reports ==
    /\ report.pc = "generate"
    /\ report' = [report EXCEPT
                    !.pc = "write",
                    !.md_pip_audit = Deref(report.heap, report.audit_vulns),
                    !.json_pip_audit = Deref(report.heap, report.audit_vulns)]
    /\ UNCHANGED <<service, audit>>

\* A write whose exception is not caught: main ends there.
after_write_uncaught(n, ok) ==
    IF ~ok THEN "crashed" ELSE IF n < Len(ReportFiles) THEN "write" ELSE "return"

\* generate_audit_report.py 371-401: each write is in a try of its own whose
\* except clause prints and goes on.
after_write(n, ok) == IF n < Len(ReportFiles) THEN "write" ELSE "return"

\* The next of the five writes, which succeeds or raises.
write_report ==
    /\ report.pc = "write"
    /\ \E ok \in BOOLEAN :
         LET n == Len(report.attempted) + 1
         IN report' = [report EXCEPT
                         !.pc = after_write(n, ok),
                         !.attempted = Append(@, ReportFiles[n]),
                         !.failed = IF ok THEN @ ELSE @ \cup {ReportFiles[n]}]
    /\ UNCHANGED <<service, audit>>

\* generate_audit_report.py 412, 415: sys.exit(main()); an exception that
\* leaves main ends the process with status 1.
report_exit ==
    /\ report.pc \in {"return", "crashed"}
    /\ report' = [report EXCEPT
                    !.pc = "done",
                    !.exit = IF report.pc = "crashed" THEN 1
                             ELSE IF Cardinality(DOMAIN report.vulnerabilities) = 0
                             THEN 0 ELSE 1]
    /\ UNCHANGED <<service, audit>>

ReportInit ==
    /\ ServiceInit
    /\ audit = NotRun
    /\ \E av \in AuditMaps, sv \in SafetyMaps, order \in HashOrders :
         report = Collected(av, sv, order)

ReportNext ==
    \/ merge
    \/ generate_reports
    \/ write_report
    \/ report_exit

SpecReport == ReportInit /\ [][ReportNext]_vars

----------------------------------------------------------------------------
(* Properties *)

IsPredict == request.op = "predict"

\* A body with a missing field, or with a field of the wrong type.
Malformed(raw) ==
    \/ \E f \in FieldSet : raw[f].t = "absent"
    \/ \E f \in FieldSet : raw[f].t = "string"

WellFormed(raw) == ~Malformed(raw)

IsBatch == request.op = "batch-predict"

BatchWellFormed == \A i \in 1..Len(request.body) : WellFormed(request.body[i])

Loaded == model # None

\* The vector the training-time feature order gives for a request body.
FeatureVector(raw) ==
    [i \in 1..Len(features) |-> raw[FieldOfFeature[features[i]]].v]

\* The arguments handed to scaler.transform by the last handler, in call order.
TransformCalls == SelectSeq(calls, LAMBDA c : c.fn = "scaler.transform")

\* C1: whenever the model is not loaded, a /predict request with a
\* well-formed body fails with status 503.
C1_UnloadedPredictIs503 ==
    (IsPredict /\ WellFormed(request.body) /\ ~Loaded) => response.status = 503

\* C2: whenever the model is not loaded, a /predict or /batch-predict request
\* builds no feature vector and calls neither the scaler nor the classifier.
C2_NoInferenceWhenUnloaded ==
    ((IsPredict \/ IsBatch) /\ ~Loaded) => calls = <<>>

C2_Witness ==
    /\ IsPredict /\ WellFormed(request.body) /\ ~Loaded
    /\ response.status >= 400 /\ calls = <<>>

C4_PredictionAndProbabilityRange ==
    (IsPredict /\ response.status = 200) =>
        /\ response.body.prediction \in {0, 1}
        /\ response.body.probability \in 0..Unit
        /\ calls # <<>>
        /\ calls[Len(calls)].fn = "model.predict_proba"
        /\ response.body.probability =
             model_predict_proba(model, calls[Len(calls)].arg).val[2]

C4_Witness ==
    /\ IsPredict /\ response.status = 200
    /\ response.body.prediction = 1
    /\ response.body.probability = 90

\* C5: in /predict and /batch-predict the vector handed to the scaler for a
\* record is [pclass, sex, age, sibsp, parch, fare, embarked], the order of
\* the training-time feature list, with no component moved, dropped or added.
C5_VectorInTrainingOrder ==
    /\ (IsPredict /\ WellFormed(request.body)) =>
          \A k \in 1..Len(TransformCalls) :
              TransformCalls[k].arg = FeatureVector(request.body)
    /\ (IsBatch /\ BatchWellFormed) =>
          /\ Len(TransformCalls) <= Len(request.body)
          /\ \A k \in 1..Len(TransformCalls) :
                TransformCalls[k].arg = FeatureVector(request.body[k])

C5_Witness ==
    /\ IsBatch /\ response.status = 200
    /\ Len(request.body) = 2
    /\ Len(TransformCalls) = 2
    /\ TransformCalls[2].arg = <<3, 0, 25, 1, 0, 50, 2>>

\* C6: when the loaded classifier has predict but no predict_proba, /predict
\* succeeds and returns the discrete prediction as the probability (0.0 or 1.0).
C6_FallbackWithoutProba ==
    (IsPredict /\ Loaded /\ raised = NoAttribute(model, "predict_proba")) =>
        /\ response.status = 200
        /\ response.body.probability = response.body.prediction * Unit

\* C7: a successful /batch-predict on N records returns N results, the i-th
\* being what /predict answers for the i-th record, and count = N.
C7_BatchResultsInOrder ==
    (IsBatch /\ response.status = 200) =>
        /\ response.body.count = Len(request.body)
        /\ Len(response.body.results) = Len(request.body)
        /\ \A i \in 1..Len(request.body) :
              LET one == predict_handler(PassengerData(request.body[i])).resp
              IN /\ one.status = 200
                 /\ response.body.results[i].prediction = one.body.prediction
                 /\ response.body.results[i].probability = one.body.probability

C7_Witness ==
    /\ IsBatch /\ response.status = 200
    /\ response.body.count = 2
    /\ response.body.results[1].prediction # response.body.results[2].prediction

\* C8: /health answers 200 with model_loaded true exactly when the model is
\* loaded, before and after the startup load.
C8_HealthReflectsLoadState ==
    (request.op = "health") =>
        /\ response.status = 200
        /\ response.body.model_loaded = Loaded

C8_Witness ==
    /\ request.op = "health" /\ phase = "serving"
    /\ response.body.model_loaded = TRUE

\* C9: with the model loaded, an exception raised while scaling or inferring
\* in /predict or /batch-predict is answered with status 400 carrying the
\* exception text, never with a 500.
C9_InferenceErrorsAre400 ==
    ((IsPredict \/ IsBatch) /\ Loaded /\ raised # NoExc) =>
        /\ response.status = 400
        /\ response.body.detail = raised.detail

C9_Witness ==
    /\ IsPredict /\ Loaded /\ raised.type = "TypeError"
    /\ response.status = 400

\* C10: no request handler changes model, scaler or model_info, whether it
\* succeeds or fails; only the startup load writes them.
C10_HandlersLeaveArtifacts ==
    [][(request'.op # "startup") => UNCHANGED artifacts]_vars

C10_Witness ==
    /\ request.op = "model-info" /\ response.status = 200
    /\ model_info \in Infos

\* The np.array calls of the last handler: one per item whose turn began.
ItemsBegun == Len(SelectSeq(calls, LAMBDA c : c.fn = "np.array"))

\* What /predict answers for item i of the last batch body.
Alone(i) == predict_handler(PassengerData(request.body[i])).resp

\* Item i is the first of the last batch body that fails on its own.
FirstFailing(i) ==
    /\ Alone(i).status # 200
    /\ \A j \in 1..(i - 1) : Alone(j).status = 200

\* C11: in /batch-predict the first item whose scaling or inference fails ends
\* the request with that item's error; no later item is processed and no
\* result of an earlier item is returned.
C11_FirstFailureAbortsBatch ==
    (IsBatch /\ Loaded /\ BatchWellFormed) =>
        \A i \in 1..Len(request.body) :
            FirstFailing(i) =>
                /\ response.status = 400
                /\ response.body = [detail |-> Alone(i).body.detail]
                /\ ItemsBegun = i

C11_Witness ==
    /\ IsBatch /\ Loaded /\ BatchWellFormed
    /\ Len(request.body) = 2
    /\ Alone(1).status = 200 /\ Alone(2).status = 400
    /\ response.status = 400

\* C12: /model-info answers 200 with exactly the metadata record read at
\* startup when it is loaded, and 503 'Model info not available' when
\* model_info is None.
C12_ModelInfoExactOr503 ==
    (request.op = "model-info") =>
        IF model_info = None
        THEN /\ response.status = 503
             /\ response.body = [detail |-> "Model info not available"]
        ELSE /\ response.status = 200
             /\ response.body = model_info
             /\ model_info \in Infos

C12_Witness ==
    /\ request.op = "model-info" /\ model_info = None
    /\ response.status = 503

\* C17: in every state in which a request has been served, model, scaler and
\* model_info are all loaded or all unloaded; a load that fails part-way ends
\* the application, and no request is served after it.
C17_LoadAllOrNothing ==
    /\ (request.op \notin {"none", "startup"}) =>
          \/ (model = None /\ scaler = None /\ model_info = None)
          \/ (model # None /\ scaler # None /\ model_info # None)
    /\ (phase = "aborted") => request.op = "startup"
    /\ (phase = "serving") => (model # None /\ scaler # None /\ model_info # None)

C17_Witness ==
    /\ phase = "aborted" /\ request.op = "startup"
    /\ model # None /\ scaler = None /\ model_info = None

AuditDone == audit.pc = "done"

\* Every check of the run returned True.
AllChecksTrue ==
    /\ Len(audit.results) = 4
    /\ \A k \in 1..4 : audit.results[k] = TRUE

\* C13 as stated: the script runs vulnerabilities, licenses, outdated, SBOM in
\* that order whatever they return, writes audit_report.json afterwards, and
\* exits 0 exactly when all four returned True, else 1.
C13_ExitZeroIffAllTrue ==
    AuditDone =>
        /\ audit.ran = <<"vulnerabilities", "licenses", "outdated", "sbom">>
        /\ audit.written
        /\ audit.exit \in {0, 1}
        /\ (audit.exit = 0) <=> AllChecksTrue

\* C13 amended: the four checks run in that order whatever they return, the
\* write of audit_report.json is attempted only after them, and the exit
\* status is 0 exactly when all four returned True and the report was
\* written; when the write fails the status is 1 whatever the checks returned.
C13_ExitZeroIffAllTrueAndWritten ==
    /\ (audit.pc \in {"write", "summary", "done"}) =>
          audit.ran = <<"vulnerabilities", "licenses", "outdated", "sbom">>
    /\ (audit.pc \in {"vulnerabilities", "licenses", "outdated", "sbom"}) =>
          (~audit.written /\ Len(audit.ran) < 4)
    /\ AuditDone =>
          /\ audit.exit \in {0, 1}
          /\ (audit.exit = 0) <=> (AllChecksTrue /\ audit.written)

C13_Witness ==
    /\ AuditDone /\ audit.written
    /\ audit.results = <<FALSE, TRUE, TRUE, FALSE>>
    /\ audit.exit = 1

ReportDone == report.pc = "done"

\* The packages either collector reported.
ReportedPackages == DOMAIN report.reported.pip_audit \cup DOMAIN report.reported.safety

\* The IDs either collector reported for a package.
ReportedIds(p) ==
    (IF p \in DOMAIN report.reported.pip_audit
     THEN Range(report.reported.pip_audit[p]) ELSE {})
    \cup (IF p \in DOMAIN report.reported.safety
          THEN Range(report.reported.safety[p]) ELSE {})

Count(seq, x) == Cardinality({i \in 1..Len(seq) : seq[i] = x})

\* The merged map as main holds it after the merge.
Merged == Deref(report.heap, report.vulnerabilities)

\* C14: main attempts the five writes in order, a failed write never prevents
\* the following ones, and the exit code is 0 exactly when the merged
\* vulnerability map is empty, whatever the writes did.
C14_AllWritesAttempted ==
    /\ Len(report.attempted) <= Len(ReportFiles)
    /\ \A k \in 1..Len(report.attempted) : report.attempted[k] = ReportFiles[k]
    /\ report.failed \subseteq Range(report.attempted)
    /\ ReportDone =>
          /\ report.attempted = ReportFiles
          /\ (report.exit = 0) <=> (ReportedPackages = {})
          /\ report.exit \in {0, 1}

C14_Witness ==
    /\ ReportDone
    /\ report.failed = {"AUDIT_REPORT.md", "AUDIT_TABLE.json"}
    /\ report.attempted = ReportFiles
    /\ report.exit = 0

\* C15: the merged map has exactly the packages of both inputs, and each
\* package's list holds every ID either source reported for it exactly once.
C15_MergedIdsOnce ==
    (report.pc \notin {"not run", "merge"}) =>
        /\ DOMAIN Merged = ReportedPackages
        /\ \A p \in ReportedPackages :
              /\ Range(Merged[p]) = ReportedIds(p)
              /\ \A id \in ReportedIds(p) : Count(Merged[p], id) = 1

\* C16: the merge leaves both inputs unchanged, so the 'pip-audit Results'
\* section and audit_sources.pip_audit hold, for every package, only the IDs
\* pip-audit reported.
C16_MergeLeavesInputs ==
    /\ (report.pc \notin {"not run", "merge"}) =>
          \A p \in DOMAIN report.audit_vulns :
              Range(report.heap[report.audit_vulns[p]]) =
                  Range(report.reported.pip_audit[p])
    /\ (report.pc \in {"write", "return", "done"}) =>
          \A p \in DOMAIN report.reported.pip_audit :
              /\ Range(report.md_pip_audit[p]) = Range(report.reported.pip_audit[p])
              /\ Range(report.json_pip_audit[p]) = Range(report.reported.pip_audit[p])

====
